---- MODULE Spec2Model ----
(***************************************************************************)
(* Model of the pre-processing core of membrane_ageing_analysis:           *)
(*   src/src/pre_processing/json_cleaner.py      (JSONCleaner,             *)
(*                                                process_corpus)          *)
(*   src/src/pre_processing/section_processor.py (SectionProcessor)        *)
(*                                                                         *)
(* Python strings are sequences of one-character strings.  Every pure      *)
(* method of the source is an operator of the same name; every             *)
(* specification below draws the arguments of one method from a bounded    *)
(* set in its Init and applies the method in its actions.                  *)
(***************************************************************************)
EXTENDS Integers, Sequences, FiniteSets, TLC

VARIABLES
    pc,               \* position of the running call
    text,             \* argument of _clean_text / _remove_reference_markers
    cleaned,          \* value returned by the call
    recleaned,        \* value returned by a second call on `cleaned`
    paper_id,         \* json_content['paper_id']
    std_id,           \* cleaned_doc['paper_id']
    raw_sections,     \* argument of _clean_sections: items of the dict, in order
    cleaned_sections, \* dict returned by _clean_sections
    keywords,         \* argument of _clean_keywords
    cleaned_keywords, \* list returned by _clean_keywords
    references,       \* the caller's list passed to _validate_references
    validated_refs,   \* list returned by _validate_references
    doc,              \* argument of _validate_cleaned_document
    valid,            \* its outcome: "True", "False" or the exception raised
    files,            \* process_corpus: contents of the *_consolidated.json files
    idx,              \* process_corpus: number of files the loop has taken
    stats,            \* process_corpus: the stats dict
    log,              \* process_corpus: per-file records written by logging
    written,          \* process_corpus: paper ids of the *_cleaned.json files
    full_text,        \* extract_sections: the reconstructed text
    section_positions,\* extract_sections: result of _find_section_positions
    sec_i,            \* extract_sections: loop index i into section_positions
    sections,         \* extract_sections: the dict being built
    val_name,         \* section['name'] of the boundary being validated
    val_span,         \* full_text[start_pos:end_pos] of that boundary
    val_content,      \* content: the span after strip()
    val_result,       \* value returned by _validate_section_content
    pages,            \* extract_sections: the blocks list of each page of doc
    page_num,         \* extract_sections: number of pages the loop has taken
    blk_i,            \* _process_column_blocks: number of blocks walked
    processed_blocks, \* _process_column_blocks: processed_blocks
    current_column,   \* _process_column_blocks: current_column
    current_x,        \* _process_column_blocks: current_x
    text_blocks,      \* extract_sections: text_blocks
    linear_text       \* value returned by _reconstruct_document_text

textVars == <<text, cleaned, recleaned>>
paperIdVars == <<paper_id, std_id>>
cleanSectionsVars == <<raw_sections, cleaned_sections>>
keywordVars == <<keywords, cleaned_keywords>>
referenceVars == <<references, validated_refs>>
validateVars == <<doc, valid>>
corpusVars == <<files, idx, stats, log, written>>
extractVars == <<full_text, section_positions, sec_i, sections>>
contentVars == <<val_name, val_span, val_content, val_result>>
layoutVars == <<pages, page_num, blk_i, processed_blocks, current_column,
                current_x, text_blocks, linear_text>>

vars == <<pc, textVars, paperIdVars, cleanSectionsVars, keywordVars,
          referenceVars, validateVars, corpusVars, extractVars,
          contentVars, layoutVars>>

\* the variables each specification leaves alone
nonTextVars == <<paperIdVars, cleanSectionsVars, keywordVars,
                 referenceVars, validateVars, corpusVars, extractVars,
                 contentVars, layoutVars>>
nonPaperIdVars == <<textVars, cleanSectionsVars, keywordVars,
                    referenceVars, validateVars, corpusVars, extractVars,
                    contentVars, layoutVars>>
nonCleanSectionsVars == <<textVars, paperIdVars, keywordVars,
                          referenceVars, validateVars, corpusVars,
                          extractVars, contentVars, layoutVars>>
nonKeywordVars == <<textVars, paperIdVars, cleanSectionsVars,
                    referenceVars, validateVars, corpusVars, extractVars,
                    contentVars, layoutVars>>
nonReferenceVars == <<textVars, paperIdVars, cleanSectionsVars,
                      keywordVars, validateVars, corpusVars, extractVars,
                      contentVars, layoutVars>>
nonValidateVars == <<textVars, paperIdVars, cleanSectionsVars, keywordVars,
                     referenceVars, corpusVars, extractVars, contentVars,
                     layoutVars>>
nonCorpusVars == <<textVars, paperIdVars, cleanSectionsVars, keywordVars,
                   referenceVars, validateVars, extractVars, contentVars,
                   layoutVars>>
nonExtractVars == <<textVars, paperIdVars, cleanSectionsVars, keywordVars,
                    referenceVars, validateVars, corpusVars, contentVars,
                    layoutVars>>
nonContentVars == <<textVars, paperIdVars, cleanSectionsVars, keywordVars,
                    referenceVars, validateVars, corpusVars, extractVars,
                    layoutVars>>
nonLayoutVars == <<textVars, paperIdVars, cleanSectionsVars, keywordVars,
                   referenceVars, validateVars, corpusVars, extractVars,
                   contentVars>>

\* a dict with no items
EmptyDict == [k \in {} |-> <<>>]

\* values of the variables a specification does not use
IdleText ==
    /\ text = <<>>
    /\ cleaned = <<>>
    /\ recleaned = <<>>
IdlePaperId ==
    /\ paper_id = <<>>
    /\ std_id = <<>>
IdleCleanSections ==
    /\ raw_sections = <<>>
    /\ cleaned_sections = EmptyDict
IdleKeywords ==
    /\ keywords = <<>>
    /\ cleaned_keywords = <<>>
IdleReferences ==
    /\ references = <<>>
    /\ validated_refs = <<>>
IdleValidate ==
    /\ doc = EmptyDict
    /\ valid = "None"
IdleCorpus ==
    /\ files = <<>>
    /\ idx = 0
    /\ stats = EmptyDict
    /\ log = <<>>
    /\ written = {}
IdleExtract ==
    /\ full_text = <<>>
    /\ section_positions = <<>>
    /\ sec_i = 0
    /\ sections = EmptyDict
IdleContent ==
    /\ val_name = "None"
    /\ val_span = <<>>
    /\ val_content = <<>>
    /\ val_result = FALSE
IdleLayout ==
    /\ pages = <<>>
    /\ page_num = 0
    /\ blk_i = 0
    /\ processed_blocks = <<>>
    /\ current_column = <<>>
    /\ current_x = 0
    /\ text_blocks = <<>>
    /\ linear_text = <<>>

IdleExceptText ==
    /\ IdlePaperId /\ IdleCleanSections /\ IdleKeywords /\ IdleReferences
    /\ IdleValidate /\ IdleCorpus /\ IdleExtract /\ IdleContent
    /\ IdleLayout
IdleExceptPaperId ==
    /\ IdleText /\ IdleCleanSections /\ IdleKeywords /\ IdleReferences
    /\ IdleValidate /\ IdleCorpus /\ IdleExtract /\ IdleContent
    /\ IdleLayout
IdleExceptCleanSections ==
    /\ IdleText /\ IdlePaperId /\ IdleKeywords /\ IdleReferences
    /\ IdleValidate /\ IdleCorpus /\ IdleExtract /\ IdleContent
    /\ IdleLayout
IdleExceptKeywords ==
    /\ IdleText /\ IdlePaperId /\ IdleCleanSections /\ IdleReferences
    /\ IdleValidate /\ IdleCorpus /\ IdleExtract /\ IdleContent
    /\ IdleLayout
IdleExceptReferences ==
    /\ IdleText /\ IdlePaperId /\ IdleCleanSections /\ IdleKeywords
    /\ IdleValidate /\ IdleCorpus /\ IdleExtract /\ IdleContent
    /\ IdleLayout
IdleExceptValidate ==
    /\ IdleText /\ IdlePaperId /\ IdleCleanSections /\ IdleKeywords
    /\ IdleReferences /\ IdleCorpus /\ IdleExtract /\ IdleContent
    /\ IdleLayout
IdleExceptCorpus ==
    /\ IdleText /\ IdlePaperId /\ IdleCleanSections /\ IdleKeywords
    /\ IdleReferences /\ IdleValidate /\ IdleExtract /\ IdleContent
    /\ IdleLayout
IdleExceptExtract ==
    /\ IdleText /\ IdlePaperId /\ IdleCleanSections /\ IdleKeywords
    /\ IdleReferences /\ IdleValidate /\ IdleCorpus /\ IdleContent
    /\ IdleLayout
IdleExceptContent ==
    /\ IdleText /\ IdlePaperId /\ IdleCleanSections /\ IdleKeywords
    /\ IdleReferences /\ IdleValidate /\ IdleCorpus /\ IdleExtract
    /\ IdleLayout
IdleExceptLayout ==
    /\ IdleText /\ IdlePaperId /\ IdleCleanSections /\ IdleKeywords
    /\ IdleReferences /\ IdleValidate /\ IdleCorpus /\ IdleExtract
    /\ IdleContent

----------------------------------------------------------------------------
(* Bounds *)

MaxTextLen == 5       \* longest argument of _clean_text
MaxIdLen == 3         \* longest paper_id
MaxFragments == 6     \* most fragments in an argument of _remove_reference_markers
MaxSections == 2      \* most items in the dict passed to _clean_sections
MaxKeywordStrLen == 5 \* longest delimited string passed to _clean_keywords
MaxKeywords == 3      \* longest list passed to _clean_keywords
MaxRefs == 2          \* longest list passed to _validate_references
MaxFiles == 2         \* most *_consolidated.json files in input_dir
MaxLines == 4         \* most lines in the text given to the section segmenter
MaxSpanTokens == 3    \* most tokens in a span given to the content check
MaxPages == 2         \* most pages in a document
MaxBlocks == 3        \* most blocks in a document, over all its pages

----------------------------------------------------------------------------
(* Characters and the character classes of Python's re module *)

LowerLetters == {"a", "b", "e", "h", "n", "t"}
UpperLetters == {"A", "B"}
Digits == {"0", "1", "2", "3", "4", "5", "6", "7", "8", "9"}
WordChars == LowerLetters \cup UpperLetters \cup Digits \cup {"_"}
Whitespace == {" ", "\t", "\n"}

\* \w
IsWord(c) == c \in WordChars
\* \s
IsSpace(c) == c \in Whitespace
\* \d
IsDigit(c) == c \in Digits

\* str.lower() on one character
LowerChar(c) ==
    CASE c = "A" -> "a"
      [] c = "B" -> "b"
      [] OTHER -> c

\* str.lower()
Lower(s) == [i \in DOMAIN s |-> LowerChar(s[i])]

\* all strings over alphabet S of length at most n
StringsUpTo(S, n) == UNION {[1..k -> S] : k \in 0..n}

\* s[i:] with a 1-based first index
From(s, i) == SubSeq(s, i, Len(s))

RECURSIVE LStrip(_)
LStrip(s) ==
    IF s # <<>> /\ IsSpace(Head(s)) THEN LStrip(Tail(s)) ELSE s

RECURSIVE RStrip(_)
RStrip(s) ==
    IF s # <<>> /\ IsSpace(s[Len(s)]) THEN RStrip(SubSeq(s, 1, Len(s) - 1)) ELSE s

\* str.strip()
Strip(s) == RStrip(LStrip(s))

\* re.sub(r'\s+', ' ', s)
RECURSIVE CollapseWhitespace(_)
CollapseWhitespace(s) ==
    IF s = <<>> THEN <<>>
    ELSE IF IsSpace(Head(s))
         THEN <<" ">> \o CollapseWhitespace(LStrip(Tail(s)))
         ELSE <<Head(s)>> \o CollapseWhitespace(Tail(s))

----------------------------------------------------------------------------
(* JSONCleaner._clean_text *)

AllowedPunct == {".", ",", ";", ":", "(", ")", "-", "[", "]"}

\* re.sub(r'[^\w\s.,;:()\-\[\]]', '', s)
RemoveSpecialChars(s) ==
    SelectSeq(s, LAMBDA c : IsWord(c) \/ IsSpace(c) \/ c \in AllowedPunct)

\* text.replace('"', '"').replace('"', '"'): both replacements map the
\* straight double quote to itself
StandardizeQuotes(s) == [i \in DOMAIN s |-> IF s[i] = "\"" THEN "\"" ELSE s[i]]

_clean_text(s) ==
    IF s = <<>> THEN <<>>
    ELSE Strip(StandardizeQuotes(RemoveSpecialChars(CollapseWhitespace(s))))

----------------------------------------------------------------------------
(* Specification SpecCleanText: _clean_text applied once, then again *)

CleanTextAlphabet == {"a", " ", "\t", ".", "@"}

InitCleanText ==
    /\ pc = "start"
    /\ text \in StringsUpTo(CleanTextAlphabet, MaxTextLen)
    /\ cleaned = <<>>
    /\ recleaned = <<>>
    /\ IdleExceptText

CleanTextFirst ==
    /\ pc = "start"
    /\ cleaned' = _clean_text(text)
    /\ pc' = "cleaned"
    /\ UNCHANGED <<text, recleaned, nonTextVars>>

CleanTextSecond ==
    /\ pc = "cleaned"
    /\ recleaned' = _clean_text(cleaned)
    /\ pc' = "recleaned"
    /\ UNCHANGED <<text, cleaned, nonTextVars>>

NextCleanText == CleanTextFirst \/ CleanTextSecond

SpecCleanText == InitCleanText /\ [][NextCleanText]_vars

\* C1: _clean_text is idempotent: cleaning the cleaned text returns it
\* unchanged, for every input string.
CleanTextIdempotent == pc = "recleaned" => recleaned = cleaned

----------------------------------------------------------------------------
(* JSONCleaner._standardize_paper_id *)

\* re.sub(r'[^\w\s-]', '', paper_id)
RemoveIdSpecialChars(s) ==
    SelectSeq(s, LAMBDA c : IsWord(c) \/ IsSpace(c) \/ c = "-")

\* str.replace(' ', '_')
ReplaceSpaces(s) == [i \in DOMAIN s |-> IF s[i] = " " THEN "_" ELSE s[i]]

_standardize_paper_id(s) == ReplaceSpaces(Lower(RemoveIdSpecialChars(s)))

----------------------------------------------------------------------------
(* Specification SpecPaperId: the paper_id field built by clean_document *)

PaperIdAlphabet == {"a", "A", "1", "_", "-", " ", "\t", "@"}

InitPaperId ==
    /\ pc = "start"
    /\ paper_id \in StringsUpTo(PaperIdAlphabet, MaxIdLen)
    /\ std_id = <<>>
    /\ IdleExceptPaperId

StandardizePaperId ==
    /\ pc = "start"
    /\ std_id' = _standardize_paper_id(paper_id)
    /\ pc' = "done"
    /\ UNCHANGED <<paper_id, nonPaperIdVars>>

NextPaperId == StandardizePaperId

SpecPaperId == InitPaperId /\ [][NextPaperId]_vars

\* C2: the paper_id returned by clean_document contains only word characters
\* and hyphens, no uppercase letter and no whitespace.
PaperIdWellFormed ==
    pc = "done" =>
        \A i \in DOMAIN std_id :
            /\ IsWord(std_id[i]) \/ std_id[i] = "-"
            /\ std_id[i] \notin UpperLetters
            /\ ~IsSpace(std_id[i])

----------------------------------------------------------------------------
(* JSONCleaner._remove_reference_markers *)

\* index of the last character of the longest run of digits starting at i
\* (i - 1 when s[i] is not a digit)
RECURSIVE DigitsEnd(_, _)
DigitsEnd(s, i) ==
    IF i <= Len(s) /\ IsDigit(s[i]) THEN DigitsEnd(s, i + 1) ELSE i - 1

\* (?:[-,]\d+)* continued from a run of digits that ends at j
RECURSIVE GroupsEnd(_, _)
GroupsEnd(s, j) ==
    IF j + 2 <= Len(s) /\ s[j + 1] \in {"-", ","} /\ IsDigit(s[j + 2])
    THEN GroupsEnd(s, DigitsEnd(s, j + 2))
    ELSE j

\* end of the match of r'\[\d+(?:[-,]\d+)*\]' that starts at i, 0 if none
NumericCitationEnd(s, i) ==
    IF i + 1 <= Len(s) /\ s[i] = "[" /\ IsDigit(s[i + 1])
    THEN LET j == GroupsEnd(s, DigitsEnd(s, i + 1))
         IN IF j + 1 <= Len(s) /\ s[j + 1] = "]" THEN j + 1 ELSE 0
    ELSE 0

\* (?:19|20)\d{2} matches at k
YearAt(s, k) ==
    /\ k + 3 <= Len(s)
    /\ <<s[k], s[k + 1]>> \in {<<"1", "9">>, <<"2", "0">>}
    /\ IsDigit(s[k + 2])
    /\ IsDigit(s[k + 3])

\* end of the match of r'\([^)]*?(?:19|20)\d{2}[^)]*?\)' that starts at i,
\* 0 if none: [^)] cannot cross a ')', so the match ends at the first ')'
AuthorYearEnd(s, i) ==
    IF s[i] = "(" /\ \E j \in (i + 1)..Len(s) : s[j] = ")"
    THEN LET close == CHOOSE j \in (i + 1)..Len(s) :
                          /\ s[j] = ")"
                          /\ \A m \in (i + 1)..(j - 1) : s[m] # ")"
         IN IF \E k \in (i + 1)..(close - 4) : YearAt(s, k) THEN close ELSE 0
    ELSE 0

\* re.sub(r'\[\d+(?:[-,]\d+)*\]', '', s): one left-to-right scan
RECURSIVE RemoveNumericCitations(_)
RemoveNumericCitations(s) ==
    IF s = <<>> THEN <<>>
    ELSE LET e == NumericCitationEnd(s, 1)
         IN IF e > 0 THEN RemoveNumericCitations(From(s, e + 1))
            ELSE <<Head(s)>> \o RemoveNumericCitations(Tail(s))

\* re.sub(r'\([^)]*?(?:19|20)\d{2}[^)]*?\)', '', s): one left-to-right scan
RECURSIVE RemoveAuthorYearCitations(_)
RemoveAuthorYearCitations(s) ==
    IF s = <<>> THEN <<>>
    ELSE LET e == AuthorYearEnd(s, 1)
         IN IF e > 0 THEN RemoveAuthorYearCitations(From(s, e + 1))
            ELSE <<Head(s)>> \o RemoveAuthorYearCitations(Tail(s))

_remove_reference_markers(s) ==
    Strip(CollapseWhitespace(RemoveAuthorYearCitations(RemoveNumericCitations(s))))

----------------------------------------------------------------------------
(* Specification SpecReferenceMarkers: _remove_reference_markers on a text *)
(* assembled from citation fragments                                       *)

MarkerFragments ==
    {<<"[">>, <<"]">>, <<"1">>, <<",">>, <<"(">>, <<")">>, <<" ">>,
     <<"2", "0", "2", "0">>}

RECURSIVE Concat(_)
Concat(fs) == IF fs = <<>> THEN <<>> ELSE Head(fs) \o Concat(Tail(fs))

InitReferenceMarkers ==
    /\ pc = "start"
    /\ \E fs \in StringsUpTo(MarkerFragments, MaxFragments) : text = Concat(fs)
    /\ cleaned = <<>>
    /\ recleaned = <<>>
    /\ IdleExceptText

RemoveReferenceMarkers ==
    /\ pc = "start"
    /\ cleaned' = _remove_reference_markers(text)
    /\ pc' = "done"
    /\ UNCHANGED <<text, recleaned, nonTextVars>>

NextReferenceMarkers == RemoveReferenceMarkers

SpecReferenceMarkers == InitReferenceMarkers /\ [][NextReferenceMarkers]_vars

\* C5: the output of _remove_reference_markers contains no numeric citation
\* marker [n], [n,m], [n-m] and no parenthesised group with a 4-digit year
\* beginning with 19 or 20.
NoCitationRemains ==
    pc = "done" =>
        \A i \in DOMAIN cleaned :
            NumericCitationEnd(cleaned, i) = 0 /\ AuthorYearEnd(cleaned, i) = 0

----------------------------------------------------------------------------
(* Dicts: a dict is a function from its keys to its values *)

\* d[k] = v
DictSet(d, k, v) == [x \in DOMAIN d \cup {k} |-> IF x = k THEN v ELSE d[x]]

----------------------------------------------------------------------------
(* JSONCleaner.section_aliases and _standardize_section_name.              *)
(* A section name is one atomic value; str.lower().strip() is tabulated    *)
(* for the raw names the specification draws.                              *)

section_aliases ==
    << <<"introduction", {"1. introduction", "i. introduction", "introduction"}>>,
       <<"methods", {"2. materials and methods", "experimental",
                     "materials and methods"}>>,
       <<"results", {"3. results", "results and discussion"}>>,
       <<"discussion", {"4. discussion", "discussion"}>>,
       <<"conclusions", {"5. conclusions", "conclusion", "concluding remarks"}>> >>

\* keys of section_patterns in SectionProcessor.extract_sections: the names
\* the segmenter produces
section_pattern_names ==
    {"introduction", "experimental", "results", "discussion", "conclusions",
     "references"}

RawSectionNames ==
    {"Introduction", "experimental", " Experimental ", "Materials and Methods",
     "3. Results", "results", "Abstract", "CONCLUSION", "references",
     "methods", "   "}

\* section_name.lower().strip()
LowerStripName(n) ==
    CASE n = "Introduction" -> "introduction"
      [] n = " Experimental " -> "experimental"
      [] n = "Materials and Methods" -> "materials and methods"
      [] n = "3. Results" -> "3. results"
      [] n = "Abstract" -> "abstract"
      [] n = "CONCLUSION" -> "conclusion"
      [] n = "   " -> ""
      [] OTHER -> n

\* indices of the items of section_aliases whose alias list holds name n
AliasMatches(n) ==
    {k \in DOMAIN section_aliases : n \in section_aliases[k][2]}

_standardize_section_name(section_name) ==
    LET n == LowerStripName(section_name)
    IN IF AliasMatches(n) # {}
       THEN section_aliases[CHOOSE k \in AliasMatches(n) :
                                \A m \in AliasMatches(n) : k <= m][1]
       ELSE n

----------------------------------------------------------------------------
(* JSONCleaner._clean_sections *)

\* the loop of _clean_sections over the remaining items, cleaned_sections
\* being the dict built so far
RECURSIVE CleanSectionsLoop(_, _)
CleanSectionsLoop(items, acc) ==
    IF items = <<>> THEN acc
    ELSE LET std_section_name == _standardize_section_name(Head(items)[1])
             cleaned_content ==
                 _remove_reference_markers(_clean_text(Head(items)[2]))
         IN IF std_section_name # "" /\ Strip(cleaned_content) # <<>>
            THEN CleanSectionsLoop(Tail(items),
                                   DictSet(acc, std_section_name, cleaned_content))
            ELSE CleanSectionsLoop(Tail(items), acc)

_clean_sections(items) == CleanSectionsLoop(items, EmptyDict)

----------------------------------------------------------------------------
(* Specification SpecCleanSections: the sections field built by            *)
(* clean_document                                                          *)

SectionContents ==
    {<<>>, <<"a">>, <<"@">>, <<"a", " ", "[", "1", "]">>}

\* the items of a dict: pairs <<name, content>> with distinct names
SectionItems ==
    {its \in StringsUpTo(RawSectionNames \X SectionContents, MaxSections) :
        \A j, k \in DOMAIN its : j # k => its[j][1] # its[k][1]}

InitCleanSections ==
    /\ pc = "start"
    /\ raw_sections \in SectionItems
    /\ cleaned_sections = EmptyDict
    /\ IdleExceptCleanSections

CleanSections ==
    /\ pc = "start"
    /\ cleaned_sections' = _clean_sections(raw_sections)
    /\ pc' = "done"
    /\ UNCHANGED <<raw_sections, nonCleanSectionsVars>>

NextCleanSections == CleanSections

SpecCleanSections == InitCleanSections /\ [][NextCleanSections]_vars

\* C6: every key of the sections mapping returned by clean_document is a
\* canonical section name (introduction, experimental, results, discussion,
\* conclusions, references) or an input name that matched no alias.
SectionKeysCanonical ==
    pc = "done" =>
        \A k \in DOMAIN cleaned_sections :
            \/ k \in section_pattern_names
            \/ \E j \in DOMAIN raw_sections :
                   /\ LowerStripName(raw_sections[j][1]) = k
                   /\ AliasMatches(k) = {}

----------------------------------------------------------------------------
(* JSONCleaner._clean_keywords *)

\* str.split(d)
RECURSIVE Split(_, _)
Split(s, d) ==
    IF \E j \in DOMAIN s : s[j] = d
    THEN LET j == CHOOSE j \in DOMAIN s :
                      s[j] = d /\ \A m \in 1..(j - 1) : s[m] # d
         IN <<SubSeq(s, 1, j - 1)>> \o Split(From(s, j + 1), d)
    ELSE <<s>>

\* re.sub(r'[;,.]$', '', s) on a string that ends with no whitespace
RemoveTrailingPunct(s) ==
    IF s # <<>> /\ s[Len(s)] \in {";", ",", "."}
    THEN SubSeq(s, 1, Len(s) - 1)
    ELSE s

\* ' '.join(s.split()): the words of s joined by single spaces
JoinWords(s) == Strip(CollapseWhitespace(s))

Articles == {<<"t", "h", "e">>, <<"a">>, <<"a", "n">>}

\* re.sub(r'^(the|a|an)\s+', '', s)
RemoveLeadingArticle(s) ==
    LET starts == {a \in Articles :
                      /\ Len(s) > Len(a)
                      /\ SubSeq(s, 1, Len(a)) = a
                      /\ IsSpace(s[Len(a) + 1])}
    IN IF starts = {} THEN s
       ELSE LStrip(From(s, Len(CHOOSE a \in starts : TRUE) + 1))

\* lines 99-109: the cleaning of one keyword
CleanKeyword(keyword) ==
    RemoveLeadingArticle(JoinWords(RemoveTrailingPunct(Lower(Strip(keyword)))))

\* line 111: cleaned and len(cleaned) > 1
KeepKeyword(c) == c # <<>> /\ Len(c) > 1

\* line 116 without seen.add(x): no item is ever recorded as seen
RemoveDuplicatesNoAdd(xs, seen) == SelectSeq(xs, LAMBDA x : x \notin seen)

\* line 116: [x for x in xs if not (x in seen or seen.add(x))]
RECURSIVE RemoveDuplicates(_, _)
RemoveDuplicates(xs, seen) ==
    IF xs = <<>> THEN <<>>
    ELSE IF Head(xs) \in seen
         THEN RemoveDuplicates(Tail(xs), seen)
         ELSE <<Head(xs)>> \o RemoveDuplicates(Tail(xs), seen \cup {Head(xs)})

\* lines 90-92: the items the loop runs over
KeywordItemsOf(kw) ==
    IF kw.kind = "str"
    THEN IF \E j \in DOMAIN kw.value : kw.value[j] = ";"
         THEN Split(kw.value, ";")
         ELSE Split(kw.value, ",")
    ELSE kw.value

_clean_keywords(kw) ==
    IF kw.value = <<>> THEN <<>>
    ELSE LET items == KeywordItemsOf(kw)
             cleaned_all == [j \in DOMAIN items |-> CleanKeyword(items[j])]
         IN RemoveDuplicates(SelectSeq(cleaned_all, KeepKeyword), {})

----------------------------------------------------------------------------
(* Specification SpecKeywords: _clean_keywords on a delimited string or on *)
(* a list of strings                                                       *)

KeywordAlphabet == {"a", "b", "B", " ", ";", ",", "."}

KeywordStrings ==
    {<<"B", "b">>, <<"b", "b", ";">>, <<"a", "b">>, <<"a", " ", "b", "b">>,
     <<"t", "h", "e", " ", " ", "a", "b">>, <<"a", "n", " ", "b">>,
     <<" ", "b", " ">>, <<"a", ".">>, <<>>}

InitKeywords ==
    /\ pc = "start"
    /\ \/ \E s \in StringsUpTo(KeywordAlphabet, MaxKeywordStrLen) :
              keywords = [kind |-> "str", value |-> s]
       \/ \E l \in StringsUpTo(KeywordStrings, MaxKeywords) :
              keywords = [kind |-> "list", value |-> l]
    /\ cleaned_keywords = <<>>
    /\ IdleExceptKeywords

CleanKeywords ==
    /\ pc = "start"
    /\ cleaned_keywords' = _clean_keywords(keywords)
    /\ pc' = "done"
    /\ UNCHANGED <<keywords, nonKeywordVars>>

NextKeywords == CleanKeywords

SpecKeywords == InitKeywords /\ [][NextKeywords]_vars

\* index of the first input item whose cleaned form is c (0 if none)
FirstSeen(c) ==
    LET items == KeywordItemsOf(keywords)
        at == {j \in DOMAIN items : CleanKeyword(items[j]) = c}
    IN IF at = {} THEN 0 ELSE CHOOSE j \in at : \A m \in at : j <= m

\* C7: the list returned by _clean_keywords has no duplicate item, every
\* item is longer than one character, and the items are in the order in
\* which their cleaned form was first seen in the input.
KeywordsDistinctOrdered ==
    pc = "done" =>
        /\ \A j, k \in DOMAIN cleaned_keywords :
               j # k => cleaned_keywords[j] # cleaned_keywords[k]
        /\ \A j \in DOMAIN cleaned_keywords : Len(cleaned_keywords[j]) > 1
        /\ \A j \in DOMAIN cleaned_keywords : FirstSeen(cleaned_keywords[j]) > 0
        /\ \A j, k \in DOMAIN cleaned_keywords :
               j < k => FirstSeen(cleaned_keywords[j]) < FirstSeen(cleaned_keywords[k])

\* the example of the claim: ['Bb', 'bb;', 'ab'] yields ['bb', 'ab']
KeywordsDuplicateDropped ==
    /\ pc = "done"
    /\ keywords = [kind |-> "list",
                   value |-> <<<<"B", "b">>, <<"b", "b", ";">>, <<"a", "b">>>>]
    /\ cleaned_keywords = <<<<"b", "b">>, <<"a", "b">>>>

----------------------------------------------------------------------------
(* JSONCleaner._validate_references.  A reference record is a dict with    *)
(* the optional keys text and year; a year is a string or None.            *)

\* the value None where a string is expected
None == <<"None">>

\* dict.get(k)
Get(d, k) == IF k \in DOMAIN d THEN d[k] ELSE None

\* not v, for a string, a list or None
Falsy(v) == v = <<>> \/ v = None

MinYear == 1900
MaxYear == 2025

DigitValue(c) ==
    CASE c = "0" -> 0 [] c = "1" -> 1 [] c = "2" -> 2 [] c = "3" -> 3
      [] c = "4" -> 4 [] c = "5" -> 5 [] c = "6" -> 6 [] c = "7" -> 7
      [] c = "8" -> 8 [] c = "9" -> 9

\* int(s) succeeds: optional whitespace around a non-empty run of digits
IsIntLiteral(s) ==
    /\ s # None
    /\ Strip(s) # <<>>
    /\ \A j \in DOMAIN Strip(s) : IsDigit(Strip(s)[j])

RECURSIVE DecimalValue(_)
DecimalValue(ds) ==
    IF ds = <<>> THEN 0
    ELSE 10 * DecimalValue(SubSeq(ds, 1, Len(ds) - 1)) + DigitValue(ds[Len(ds)])

\* int(s) for a string that IsIntLiteral
IntValue(s) == DecimalValue(Strip(s))

\* line 301 with the lower bound excluded
InYearRangeExclusive(year) == MinYear < year /\ year <= MaxYear

\* line 301: 1900 <= year <= 2025
InYearRange(year) == MinYear <= year /\ year <= MaxYear

\* lines 298-304: the record after the year check (the record is updated in
\* place)
CheckYear(ref) ==
    IF ~Falsy(Get(ref, "year"))
    THEN IF IsIntLiteral(ref["year"]) /\ InYearRange(IntValue(ref["year"]))
         THEN ref
         ELSE [ref EXCEPT !["year"] = None]
    ELSE ref

\* the caller's records after the loop: a record with no text is skipped
\* before its year is looked at
ReferencesAfterValidation(refs) ==
    [j \in DOMAIN refs |->
        IF Falsy(Get(refs[j], "text")) THEN refs[j] ELSE CheckYear(refs[j])]

\* the list returned: the records that were appended, in order
_validate_references(refs) ==
    SelectSeq(ReferencesAfterValidation(refs),
              LAMBDA ref : ~Falsy(Get(ref, "text")))

----------------------------------------------------------------------------
(* Specification SpecReferences: _validate_references on a list of records *)

RefTexts == {<<>>, None, <<"a">>, <<"b">>}

RefYears ==
    {<<>>, None, <<"1", "8", "9", "9">>, <<"1", "9", "0", "0">>,
     <<"2", "0", "2", "3">>, <<"2", "0", "2", "5">>, <<"2", "0", "2", "6">>,
     <<"a", "b">>, <<"2", "0", "a", "3">>}

RefRecords ==
    {[text |-> t, year |-> y] : t \in RefTexts, y \in RefYears}
        \cup {[text |-> t] : t \in RefTexts}
        \cup {[year |-> y] : y \in RefYears}

InitReferences ==
    /\ pc = "start"
    /\ references \in StringsUpTo(RefRecords, MaxRefs)
    /\ validated_refs = <<>>
    /\ IdleExceptReferences

ValidateReferences ==
    /\ pc = "start"
    /\ references' = ReferencesAfterValidation(references)
    /\ validated_refs' = _validate_references(references)
    /\ pc' = "done"
    /\ UNCHANGED nonReferenceVars

NextReferences == ValidateReferences

SpecReferences == InitReferences /\ [][NextReferences]_vars

\* the year of a record is absent, empty, null or an integer in
\* [1900, 2025]
YearAcceptable(ref) ==
    \/ "year" \notin DOMAIN ref
    \/ Falsy(ref["year"])
    \/ /\ IsIntLiteral(ref["year"])
       /\ MinYear <= IntValue(ref["year"])
       /\ IntValue(ref["year"]) <= MaxYear

\* out is what the claim says _validate_references returns for input inp
ReferencesValidated(inp, out) ==
    LET keep == {j \in DOMAIN inp : ~Falsy(Get(inp[j], "text"))}
        nth(k) == CHOOSE j \in keep : Cardinality({m \in keep : m <= j}) = k
    IN /\ Len(out) = Cardinality(keep)
       /\ \A k \in DOMAIN out :
              /\ DOMAIN out[k] = DOMAIN inp[nth(k)]
              /\ out[k]["text"] = inp[nth(k)]["text"]
              /\ YearAcceptable(out[k])
              /\ YearAcceptable(inp[nth(k)]) => out[k] = inp[nth(k)]
              /\ ~YearAcceptable(inp[nth(k)]) => out[k]["year"] = None

\* C8: the result of _validate_references holds exactly the input records
\* with non-empty text, in input order; a year outside [1900, 2025] or
\* non-numeric is nulled, a year inside the range is kept unchanged.
ValidateReferencesCorrect ==
    [][(pc = "start" /\ pc' = "done") =>
           ReferencesValidated(references, validated_refs')]_vars

\* a record without text was dropped, 1899 was nulled and 2023 was retained
ReferencesYearNulledAndKept ==
    /\ pc = "done"
    /\ Len(validated_refs) = 2
    /\ validated_refs[1] = [text |-> <<"a">>, year |-> None]
    /\ validated_refs[2] = [text |-> <<"b">>, year |-> <<"2", "0", "2", "3">>]

----------------------------------------------------------------------------
(* JSON values whose type the code depends on carry the type and hold the  *)
(* value in a field named after it                                         *)

JNone == [type |-> "NoneType"]
JStr(s) == [type |-> "str", str |-> s]
JList(l) == [type |-> "list", list |-> l]
JDict(d) == [type |-> "dict", dict |-> d]

\* not v
JFalsy(v) ==
    CASE v.type = "NoneType" -> TRUE
      [] v.type = "str" -> v.str = <<>>
      [] v.type = "list" -> v.list = <<>>
      [] v.type = "dict" -> DOMAIN v.dict = {}

\* d.get(k) on the items of a dict
JGet(d, k) == IF k \in DOMAIN d THEN d[k] ELSE JNone

----------------------------------------------------------------------------
(* JSONCleaner._validate_cleaned_document: "True", "False" or the name of  *)
(* the exception raised                                                    *)

required_fields == {"paper_id", "metadata", "sections", "references"}

_validate_cleaned_document(d) ==
    IF ~(required_fields \subseteq DOMAIN d) THEN "False"
    \* doc['metadata'].get: only a dict has the attribute get
    ELSE IF d["metadata"].type # "dict" THEN "AttributeError"
    ELSE IF \/ JFalsy(JGet(d["metadata"].dict, "title"))
            \/ JFalsy(JGet(d["metadata"].dict, "authors")) THEN "False"
    \* doc['sections'].values: only a dict has the attribute values
    ELSE IF d["sections"].type # "dict" THEN "AttributeError"
    ELSE IF ~\E k \in DOMAIN d["sections"].dict :
                 ~JFalsy(d["sections"].dict[k]) THEN "False"
    ELSE "True"

----------------------------------------------------------------------------
(* Specification SpecValidate: _validate_cleaned_document on a document    *)

MetadataValues ==
    {JNone, JStr(<<"a">>)}
        \cup {JDict([title |-> t, authors |-> a]) :
                  t \in {JStr(<<>>), JStr(<<"a">>)},
                  a \in {JList(<<>>), JList(<<<<"a">>>>)}}
        \cup {JDict([title |-> t]) : t \in {JStr(<<>>), JStr(<<"a">>)}}
        \cup {JDict([authors |-> a]) : a \in {JList(<<>>), JList(<<<<"a">>>>)}}
        \cup {JDict(EmptyDict)}

SectionsValues ==
    {JNone, JList(<<>>), JDict(EmptyDict),
     JDict([introduction |-> JStr(<<>>)]),
     JDict([introduction |-> JStr(<<"a">>)]),
     JDict([introduction |-> JStr(<<>>), results |-> JStr(<<"a">>)])}

InitValidate ==
    /\ pc = "start"
    /\ \E D \in SUBSET required_fields, m \in MetadataValues, sv \in SectionsValues :
           doc = [k \in D |->
                     CASE k = "paper_id" -> JStr(<<"p">>)
                       [] k = "metadata" -> m
                       [] k = "sections" -> sv
                       [] k = "references" -> JList(<<>>)]
    /\ valid = "None"
    /\ IdleExceptValidate

ValidateCleanedDocument ==
    /\ pc = "start"
    /\ valid' = _validate_cleaned_document(doc)
    /\ pc' = "done"
    /\ UNCHANGED <<doc, nonValidateVars>>

NextValidate == ValidateCleanedDocument

SpecValidate == InitValidate /\ [][NextValidate]_vars

\* all four fields present, title and authors non-empty, a non-empty
\* section value
DocumentComplete(d) ==
    /\ required_fields \subseteq DOMAIN d
    /\ d["metadata"].type = "dict"
    /\ ~JFalsy(JGet(d["metadata"].dict, "title"))
    /\ ~JFalsy(JGet(d["metadata"].dict, "authors"))
    /\ d["sections"].type = "dict"
    /\ \E k \in DOMAIN d["sections"].dict : ~JFalsy(d["sections"].dict[k])

\* C9: _validate_cleaned_document returns True or False for every document
\* and never raises; it returns True exactly for a complete document.
ValidateNeverRaises ==
    pc = "done" =>
        /\ valid \in {"True", "False"}
        /\ (valid = "True") <=> DocumentComplete(doc)

----------------------------------------------------------------------------
(* JSONCleaner._extract_year, _parse_reference, _clean_references *)

\* re.search(r'(19|20)\d{2}', str(text)): the first match, "" if none
_extract_year(s) ==
    IF \E k \in DOMAIN s : YearAt(s, k)
    THEN LET k == CHOOSE k \in DOMAIN s :
                      YearAt(s, k) /\ \A m \in 1..(k - 1) : ~YearAt(s, m)
         IN SubSeq(s, k, k + 3)
    ELSE <<>>

\* index of the last character of the longest run of \S starting at j
RECURSIVE NonSpaceEnd(_, _)
NonSpaceEnd(s, j) ==
    IF j <= Len(s) /\ ~IsSpace(s[j]) THEN NonSpaceEnd(s, j + 1) ELSE j - 1

\* end of the match of r'10\.\d{4,}/\S+' that starts at j, 0 if none
DoiEnd(s, j) ==
    IF /\ j + 2 <= Len(s)
       /\ SubSeq(s, j, j + 2) = <<"1", "0", ".">>
       /\ DigitsEnd(s, j + 3) >= j + 6
       /\ DigitsEnd(s, j + 3) + 2 <= Len(s)
       /\ s[DigitsEnd(s, j + 3) + 1] = "/"
       /\ ~IsSpace(s[DigitsEnd(s, j + 3) + 2])
    THEN NonSpaceEnd(s, DigitsEnd(s, j + 3) + 2)
    ELSE 0

\* doi_match.group(0) if doi_match else None
ExtractDoi(s) ==
    IF \E j \in DOMAIN s : DoiEnd(s, j) > 0
    THEN LET j == CHOOSE j \in DOMAIN s :
                      DoiEnd(s, j) > 0 /\ \A m \in 1..(j - 1) : DoiEnd(s, m) = 0
         IN SubSeq(s, j, DoiEnd(s, j))
    ELSE None

_parse_reference(ref) ==
    [text |-> _clean_text(ref), doi |-> ExtractDoi(ref), year |-> _extract_year(ref)]

\* every parsed reference is a non-empty dict, so every one is appended
_clean_references(refs) == [j \in DOMAIN refs |-> _parse_reference(refs[j])]

----------------------------------------------------------------------------
(* JSONCleaner._clean_author and _clean_metadata *)

\* s.split(): the words of s
Words(s) == IF JoinWords(s) = <<>> THEN <<>> ELSE Split(JoinWords(s), " ")

\* ' '.join(ws)
RECURSIVE JoinSpace(_)
JoinSpace(ws) ==
    IF ws = <<>> THEN <<>>
    ELSE IF Len(ws) = 1 THEN Head(ws)
    ELSE Head(ws) \o <<" ">> \o JoinSpace(Tail(ws))

\* author.split(',')[0].strip().split() of the cleaned author string
NameParts(author) == Words(Strip(Split(_clean_text(author), ",")[1]))

\* lines 135-151; called only when NameParts(author) is not empty
_clean_author(raw) ==
    LET author == _clean_text(raw)
        name_parts == NameParts(raw)
        pieces == Split(author, ",")
        stripped == [j \in DOMAIN Tail(pieces) |-> Strip(Tail(pieces)[j])]
    IN [full_name |-> author,
        last_name |-> name_parts[Len(name_parts)],
        first_name |-> IF Len(name_parts) > 1
                       THEN JoinSpace(SubSeq(name_parts, 1, Len(name_parts) - 1))
                       ELSE <<>>,
        affiliations |-> SelectSeq(stripped, LAMBDA a : a # <<>>)]

\* lines 67-70: the authors for which _clean_author returns a record
RECURSIVE CleanAuthors(_)
CleanAuthors(authors) ==
    IF authors = <<>> THEN <<>>
    ELSE IF NameParts(Head(authors)) = <<>>
         THEN CleanAuthors(Tail(authors))
         ELSE <<_clean_author(Head(authors))>> \o CleanAuthors(Tail(authors))

\* metadata.get(k, '') for a string field
StrField(md, k) == IF k \in DOMAIN md THEN md[k].str ELSE <<>>

\* metadata.get(k, []) for a list field
ListField(md, k) == IF k \in DOMAIN md THEN md[k].list ELSE <<>>

_clean_metadata(md) ==
    [title |-> JStr(_clean_text(StrField(md, "title"))),
     authors |-> JList(CleanAuthors(ListField(md, "authors"))),
     journal |-> JStr(_clean_text(StrField(md, "journal"))),
     year |-> JStr(_extract_year(StrField(md, "year"))),
     volume |-> JStr(_clean_text(StrField(md, "volume"))),
     abstract |-> JStr(_clean_text(StrField(md, "abstract"))),
     keywords |-> JList(_clean_keywords([kind |-> "list",
                                         value |-> ListField(md, "keywords")]))]

----------------------------------------------------------------------------
(* JSONCleaner.clean_document.  An input document is a typed JSON value;   *)
(* its sections dict is held as the sequence of its items, in file order.  *)

JItems(items) == [type |-> "dict", items |-> items]

\* the exception clean_document raises on json_content, "" if none: the
\* four fields are read in the order of lines 31-34
CleanDocumentError(j) ==
    IF j.type # "dict" THEN "TypeError"
    ELSE IF "paper_id" \notin DOMAIN j.dict THEN "KeyError"
    ELSE IF j.dict["paper_id"].type # "str" THEN "TypeError"
    ELSE IF "metadata" \notin DOMAIN j.dict THEN "KeyError"
    ELSE IF j.dict["metadata"].type # "dict" THEN "AttributeError"
    ELSE IF "sections" \notin DOMAIN j.dict THEN "KeyError"
    ELSE IF j.dict["sections"].type # "dict" THEN "AttributeError"
    ELSE IF "references" \notin DOMAIN j.dict THEN "KeyError"
    ELSE IF j.dict["references"].type # "list" THEN "TypeError"
    ELSE ""

\* cleaned_doc, when clean_document raises nothing
clean_document(j) ==
    LET cs == _clean_sections(j.dict["sections"].items)
    IN [paper_id |-> JStr(_standardize_paper_id(j.dict["paper_id"].str)),
        metadata |-> JDict(_clean_metadata(j.dict["metadata"].dict)),
        sections |-> JDict([k \in DOMAIN cs |-> JStr(cs[k])]),
        references |-> JList(_clean_references(j.dict["references"].list))]

----------------------------------------------------------------------------
(* process_corpus *)

\* stats[key] += 1
Increment(st, key) == [st EXCEPT ![key] = @ + 1]

\* the exception raised inside the try block for a file (lines 337-355),
\* "" if none; save_ok says whether the output file could be written
ExceptionInTry(file, save_ok) ==
    IF file.kind = "invalid" THEN "JSONDecodeError"
    ELSE IF CleanDocumentError(file.json) # "" THEN CleanDocumentError(file.json)
    ELSE IF _validate_cleaned_document(clean_document(file.json))
                \notin {"True", "False"}
         THEN _validate_cleaned_document(clean_document(file.json))
    ELSE IF _validate_cleaned_document(clean_document(file.json)) = "True"
            /\ ~save_ok
         THEN "OSError"
    ELSE ""

\* an exception leaves the loop and process_corpus: no except clause
FileFailsUncaught ==
    /\ pc = "loop"
    /\ idx < Len(files)
    /\ \E save_ok \in BOOLEAN : ExceptionInTry(files[idx + 1], save_ok) # ""
    /\ stats' = Increment(stats, "total")
    /\ idx' = idx + 1
    /\ pc' = "done"
    /\ UNCHANGED <<files, log, written, nonCorpusVars>>

\* one iteration that ends in the except clause (lines 357-359)
FileFails ==
    /\ pc = "loop"
    /\ idx < Len(files)
    /\ \E save_ok \in BOOLEAN : ExceptionInTry(files[idx + 1], save_ok) # ""
    /\ stats' = Increment(Increment(stats, "total"), "failed")
    /\ log' = Append(log, [file |-> idx + 1, level |-> "error"])
    /\ idx' = idx + 1
    /\ UNCHANGED <<pc, files, written, nonCorpusVars>>

\* one iteration that ends at the continue of line 347
FileWarns ==
    /\ pc = "loop"
    /\ idx < Len(files)
    /\ ExceptionInTry(files[idx + 1], TRUE) = ""
    /\ _validate_cleaned_document(clean_document(files[idx + 1].json)) = "False"
    /\ stats' = Increment(Increment(stats, "total"), "warnings")
    /\ log' = Append(log, [file |-> idx + 1, level |-> "warning"])
    /\ idx' = idx + 1
    /\ UNCHANGED <<pc, files, written, nonCorpusVars>>

\* one iteration that saves the cleaned document (lines 350-355)
FileSucceeds ==
    /\ pc = "loop"
    /\ idx < Len(files)
    /\ ExceptionInTry(files[idx + 1], TRUE) = ""
    /\ _validate_cleaned_document(clean_document(files[idx + 1].json)) = "True"
    /\ written' = written \cup {clean_document(files[idx + 1].json).paper_id.str}
    /\ stats' = Increment(Increment(stats, "total"), "successful")
    /\ log' = Append(log, [file |-> idx + 1, level |-> "info"])
    /\ idx' = idx + 1
    /\ UNCHANGED <<pc, files, nonCorpusVars>>

\* the loop is exhausted: the summary is logged (lines 362-366)
CorpusDone ==
    /\ pc = "loop"
    /\ idx = Len(files)
    /\ pc' = "done"
    /\ UNCHANGED <<corpusVars, nonCorpusVars>>

----------------------------------------------------------------------------
(* Specification SpecCorpus: process_corpus over the files of input_dir    *)

CorpusReference ==
    <<"a", " ", "1", "0", ".", "1", "2", "3", "4", "/", "b", " ",
      "2", "0", "2", "0">>

CorpusAuthors == JList(<<<<"a", " ", "b", ",", " ", "e">>, <<"@">>>>)

CorpusMetadata ==
    {JNone,
     JDict([title |-> JStr(<<"a", " ", "@", " ", "b">>), authors |-> CorpusAuthors,
            year |-> JStr(<<"2", "0", "2", "0">>),
            keywords |-> JList(<<<<"B", "b">>, <<"b", "b", ";">>>>)]),
     JDict([title |-> JStr(<<"@">>), authors |-> CorpusAuthors])}

CorpusSections ==
    {JItems(<<<<"Introduction", <<"a", " ", "[", "1", "]">>>>,
              <<"experimental", <<"b">>>>>>),
     JItems(<<<<"Introduction", <<"[", "1", "]">>>>>>)}

CorpusDocFields ==
    {[paper_id |-> has_id, metadata |-> md, sections |-> sv, references |-> refs] :
        has_id \in BOOLEAN,
        md \in CorpusMetadata \cup {[type |-> "absent"]},
        sv \in CorpusSections,
        refs \in {JList(<<CorpusReference>>), [type |-> "absent"]}}

\* the JSON object with the fields that f says are present
CorpusDoc(f) ==
    JDict([k \in {x \in required_fields :
                      IF x = "paper_id" THEN f.paper_id ELSE f[x].type # "absent"}
              |-> IF k = "paper_id" THEN JStr(<<"A", " ", "1">>) ELSE f[k]])

CorpusFiles ==
    {[kind |-> "invalid"]}
        \cup {[kind |-> "json", json |-> CorpusDoc(f)] : f \in CorpusDocFields}

InitCorpus ==
    /\ pc = "loop"
    /\ files \in StringsUpTo(CorpusFiles, MaxFiles)
    /\ idx = 0
    /\ stats = [total |-> 0, successful |-> 0, failed |-> 0, warnings |-> 0]
    /\ log = <<>>
    /\ written = {}
    /\ IdleExceptCorpus

NextCorpus == FileFails \/ FileWarns \/ FileSucceeds \/ CorpusDone

SpecCorpus == InitCorpus /\ [][NextCorpus]_vars

\* number of log records of a level
LogCount(level) == Cardinality({k \in DOMAIN log : log[k].level = level})

\* C10: each document is visited exactly once and increments exactly one
\* of successful / failed / warnings whatever happened to the documents
\* before it, and when the run ends total = successful + failed + warnings
\* = number of input documents.
CorpusCountsConsistent ==
    /\ stats.total = idx
    /\ Len(log) = idx
    /\ \A k \in DOMAIN log : log[k].file = k
    /\ stats.successful = LogCount("info")
    /\ stats.failed = LogCount("error")
    /\ stats.warnings = LogCount("warning")
    /\ stats.total = stats.successful + stats.failed + stats.warnings
    /\ pc = "done" => stats.total = Len(files)

\* a run of two documents ended; the first failed with an exception, the
\* second was still processed and saved
CorpusContinuedAfterFailure ==
    /\ pc = "done"
    /\ Len(files) = 2
    /\ log[1].level = "error"
    /\ log[2].level = "info"
    /\ stats = [total |-> 2, successful |-> 1, failed |-> 1, warnings |-> 0]

----------------------------------------------------------------------------
(* SectionProcessor: the reconstructed text.                               *)
(* full_text is a sequence of tokens: a token is a newline, a space, a     *)
(* heading word, a numeral prefix, a lexical cue or a run of plain prose   *)
(* of a given length.  Offsets count tokens; every match of a heading      *)
(* pattern begins and ends between two tokens.                             *)

\* len() of a token
TokenLen(t) ==
    CASE t = "\n" -> 1
      [] t = " " -> 1
      [] t \in {"1.", "2.", "3.", "4.", "5."} -> 2
      [] t = "Introduction" -> 12
      [] t = "Methods" -> 7
      [] t = "Results" -> 7
      [] t = "Discussion" -> 10
      [] t = "Conclusions" -> 11
      [] t = "References" -> 10
      [] t = "fig" -> 3
      [] t = "experiment" -> 10
      [] t = "study" -> 5
      [] t = "[1]" -> 3
      [] t = "body50" -> 50
      [] t = "body100" -> 100
      [] t = "body47" -> 47
      [] t = "body49" -> 49
      [] t = "Fig" -> 3

\* the cue strings that occur in the lower-cased token
TokenCues(t) ==
    CASE t \in {"fig", "Fig"} -> {"fig"}
      [] t = "experiment" -> {"experiment"}
      [] t = "study" -> {"study"}
      [] t = "[1]" -> {"[n]"}
      [] OTHER -> {}

\* len(content)
RECURSIVE TextLen(_)
TextLen(content) ==
    IF content = <<>> THEN 0 ELSE TokenLen(Head(content)) + TextLen(Tail(content))

\* text[a:b] with 0-based offsets
Slice(txt, a, b) == SubSeq(txt, a + 1, b)

\* section_patterns, in dict order: the numeral prefix and the heading
\* words each pattern accepts
section_patterns ==
    << [name |-> "introduction", prefix |-> "1.", words |-> {"Introduction"}],
       [name |-> "experimental", prefix |-> "2.", words |-> {"Methods"}],
       [name |-> "results", prefix |-> "3.", words |-> {"Results"}],
       [name |-> "discussion", prefix |-> "4.", words |-> {"Discussion"}],
       [name |-> "conclusions", prefix |-> "5.", words |-> {"Conclusions"}],
       [name |-> "references", prefix |-> "", words |-> {"References"}] >>

\* offset after the run of whitespace that starts at offset j
RECURSIVE SkipSpace(_, _)
SkipSpace(txt, j) ==
    IF j + 1 <= Len(txt) /\ IsSpace(txt[j + 1]) THEN SkipSpace(txt, j + 1) ELSE j

\* \s*$ from offset e: the greatest offset reached over whitespace that is
\* the end of the text or stands before a newline; -1 if there is none
TrailingEnd(txt, e) ==
    LET ends == {k \in e..SkipSpace(txt, e) : k = Len(txt) \/ txt[k + 1] = "\n"}
    IN IF ends = {} THEN -1 ELSE CHOOSE k \in ends : \A m \in ends : m <= k

\* (?:N\.?\s*)?(?i:words)\s*$ from offset h: end of the match, -1 if none
HeadingEnd(txt, h, pat) ==
    LET w == IF h + 1 <= Len(txt) /\ txt[h + 1] = pat.prefix
             THEN SkipSpace(txt, h + 1)
             ELSE h
    IN IF w + 1 <= Len(txt) /\ txt[w + 1] \in pat.words
       THEN TrailingEnd(txt, w + 1)
       ELSE -1

\* the whole pattern from offset q: (?:^|\n) then the heading; end of the
\* match, -1 if none
MatchEnd(txt, q, pat) ==
    IF (q = 0 \/ txt[q] = "\n") /\ HeadingEnd(txt, q, pat) >= 0
    THEN HeadingEnd(txt, q, pat)
    ELSE IF q + 1 <= Len(txt) /\ txt[q + 1] = "\n" /\ HeadingEnd(txt, q + 1, pat) >= 0
    THEN HeadingEnd(txt, q + 1, pat)
    ELSE -1

\* re.finditer(pattern, text) from offset q on, as the records of
\* lines 188-192
RECURSIVE FindIter(_, _, _)
FindIter(txt, pat, q) ==
    IF q > Len(txt) THEN <<>>
    ELSE IF MatchEnd(txt, q, pat) >= 0
    THEN <<[name |-> pat.name, start |-> MatchEnd(txt, q, pat), pattern_start |-> q]>>
             \o FindIter(txt, pat, MatchEnd(txt, q, pat))
    ELSE FindIter(txt, pat, q + 1)

\* the positions list before it is sorted: every pattern in turn
RECURSIVE AllMatches(_, _)
AllMatches(txt, pats) ==
    IF pats = <<>> THEN <<>>
    ELSE FindIter(txt, Head(pats), 0) \o AllMatches(txt, Tail(pats))

\* insert x into a list sorted by pattern_start, after the equal items
RECURSIVE InsertSorted(_, _)
InsertSorted(xs, x) ==
    IF xs = <<>> THEN <<x>>
    ELSE IF x.pattern_start < Head(xs).pattern_start THEN <<x>> \o xs
    ELSE <<Head(xs)>> \o InsertSorted(Tail(xs), x)

\* sorted(positions, key=lambda x: x['pattern_start'])
RECURSIVE SortPositions(_)
SortPositions(xs) ==
    IF xs = <<>> THEN <<>>
    ELSE InsertSorted(SortPositions(SubSeq(xs, 1, Len(xs) - 1)), xs[Len(xs)])

_find_section_positions(txt, pats) == SortPositions(AllMatches(txt, pats))

----------------------------------------------------------------------------
(* SectionProcessor._validate_section_content *)

MinContentLen == 100

\* any(x in content.lower() for x in cues)
ContainsAny(content, cues) ==
    \E j \in DOMAIN content : TokenCues(content[j]) \cap cues # {}

\* the method with the length test made inclusive
ValidateSectionContentInclusive(section_name, content) ==
    IF content = <<>> \/ TextLen(content) <= MinContentLen THEN FALSE
    ELSE IF section_name = "introduction"
         THEN ContainsAny(content, {"background", "study", "aim"})
    ELSE IF section_name = "methods"
         THEN ContainsAny(content, {"experiment", "analysis", "protocol"})
    ELSE IF section_name = "results"
         THEN ContainsAny(content, {"fig", "table", "observed"})
    ELSE IF section_name = "references"
         THEN ContainsAny(content, {"[n]", "(YYYY)"})
    ELSE TRUE

_validate_section_content(section_name, content) ==
    IF content = <<>> \/ TextLen(content) < MinContentLen THEN FALSE
    ELSE IF section_name = "introduction"
         THEN ContainsAny(content, {"background", "study", "aim"})
    ELSE IF section_name = "methods"
         THEN ContainsAny(content, {"experiment", "analysis", "protocol"})
    ELSE IF section_name = "results"
         THEN ContainsAny(content, {"fig", "table", "observed"})
    ELSE IF section_name = "references"
         THEN ContainsAny(content, {"[n]", "(YYYY)"})
    ELSE TRUE

----------------------------------------------------------------------------
(* SectionProcessor.extract_sections, from the reconstructed text on       *)
(* (lines 56-69)                                                           *)

\* end_pos of the boundary at index k (1-based) of positions
EndPos(txt, positions, k) ==
    IF k < Len(positions) THEN positions[k + 1].start ELSE Len(txt)

\* content of the boundary at index k: full_text[start_pos:end_pos].strip()
SectionContent(txt, positions, k) ==
    Strip(Slice(txt, positions[k].start, EndPos(txt, positions, k)))

FindSectionPositions ==
    /\ pc = "find"
    /\ section_positions' = _find_section_positions(full_text, section_patterns)
    /\ sec_i' = 0
    /\ sections' = EmptyDict
    /\ pc' = "loop"
    /\ UNCHANGED <<full_text, nonExtractVars>>

\* the iteration with a validated span stored only under a new key
ExtractSectionKeepFirst ==
    /\ pc = "loop"
    /\ sec_i < Len(section_positions)
    /\ LET section == section_positions[sec_i + 1]
           content == SectionContent(full_text, section_positions, sec_i + 1)
       IN sections' = IF /\ _validate_section_content(section.name, content)
                         /\ section.name \notin DOMAIN sections
                      THEN DictSet(sections, section.name, content)
                      ELSE sections
    /\ sec_i' = sec_i + 1
    /\ UNCHANGED <<pc, full_text, section_positions, nonExtractVars>>

\* one iteration of the loop of line 59
ExtractSection ==
    /\ pc = "loop"
    /\ sec_i < Len(section_positions)
    /\ LET section == section_positions[sec_i + 1]
           content == SectionContent(full_text, section_positions, sec_i + 1)
       IN sections' = IF _validate_section_content(section.name, content)
                      THEN DictSet(sections, section.name, content)
                      ELSE sections
    /\ sec_i' = sec_i + 1
    /\ UNCHANGED <<pc, full_text, section_positions, nonExtractVars>>

ReturnSections ==
    /\ pc = "loop"
    /\ sec_i = Len(section_positions)
    /\ pc' = "done"
    /\ UNCHANGED <<extractVars, nonExtractVars>>

----------------------------------------------------------------------------
(* Specification SpecExtract: extract_sections on a text of a few lines    *)

TextLines ==
    {<<"Introduction">>, <<"Methods">>, <<"2.", " ", "Methods">>, <<"Results">>,
     <<"Methods", " ", "body50">>, <<"body100">>, <<"body50">>, <<"fig">>,
     <<"experiment">>}

\* "\n".join(lines)
RECURSIVE JoinLines(_)
JoinLines(ls) ==
    IF ls = <<>> THEN <<>>
    ELSE IF Len(ls) = 1 THEN Head(ls)
    ELSE Head(ls) \o <<"\n">> \o JoinLines(Tail(ls))

InitExtract ==
    /\ pc = "find"
    /\ \E ls \in StringsUpTo(TextLines, MaxLines) : full_text = JoinLines(ls)
    /\ section_positions = <<>>
    /\ sec_i = 0
    /\ sections = EmptyDict
    /\ IdleExceptExtract

NextExtract == FindSectionPositions \/ ExtractSection \/ ReturnSections

SpecExtract == InitExtract /\ [][NextExtract]_vars

\* the span the claim gives boundary k: from the end of heading k to the
\* start of heading k + 1, or to the end of the text
ClaimedSpan(k) ==
    Slice(full_text, section_positions[k].start,
          IF k < Len(section_positions)
          THEN section_positions[k + 1].pattern_start
          ELSE Len(full_text))

\* C3: the content stored for boundary i is the text from the end of
\* heading i up to the start of heading i+1 (or the end of the text), so it
\* never contains the heading text of section i+1.
StoredContentStopsAtNextHeading ==
    [][(pc = "loop" /\ sec_i < Len(section_positions) /\ sections' # sections) =>
           sections'[section_positions[sec_i + 1].name] = Strip(ClaimedSpan(sec_i + 1))]_vars

\* C4: a span under a heading of the experimental pattern is retained only
\* if its content contains one of experiment, analysis, protocol.
ExperimentalNeedsCue ==
    "experimental" \in DOMAIN sections =>
        ContainsAny(sections["experimental"], {"experiment", "analysis", "protocol"})

----------------------------------------------------------------------------
(* Specification SpecContent: the content check of one boundary, as the    *)
(* loop of extract_sections calls it (lines 63 and 66)                     *)

\* the tokens of a span
SpanTokens == {" ", "body47", "body49", "body50", "body100", "fig", "Fig", "study"}

\* the names _find_section_positions gives a boundary, and the key
\* 'methods' that line 126 tests
BoundaryNames ==
    {section_patterns[k].name : k \in DOMAIN section_patterns} \cup {"methods"}

\* lines 63 and 66: content = span.strip(), then the check
ValidateSpan ==
    /\ pc = "start"
    /\ val_content' = Strip(val_span)
    /\ val_result' = _validate_section_content(val_name, val_content')
    /\ pc' = "done"
    /\ UNCHANGED <<val_name, val_span, nonContentVars>>

InitContent ==
    /\ pc = "start"
    /\ val_name \in BoundaryNames
    /\ val_span \in StringsUpTo(SpanTokens, MaxSpanTokens)
    /\ val_content = <<>>
    /\ val_result = FALSE
    /\ IdleExceptContent

NextContent == ValidateSpan

SpecContent == InitContent /\ [][NextContent]_vars

\* C11: for a boundary named results the check returns True exactly when
\* the trimmed content has at least 100 characters and contains, whatever
\* the case, one of fig, table, observed; so a 50-character span is
\* rejected and a span with none of the cues is rejected at any length.
ResultsContentCheck ==
    (pc = "done" /\ val_name = "results") =>
        (val_result <=>
            /\ TextLen(val_content) >= 100
            /\ \E j \in DOMAIN val_content :
                   TokenCues(val_content[j]) \cap {"fig", "table", "observed"} # {})

\* a results span of 150 characters that contains fig was accepted
ResultsSpanWithFigAccepted ==
    /\ pc = "done"
    /\ val_name = "results"
    /\ TextLen(val_content) = 150
    /\ \E j \in DOMAIN val_content : val_content[j] = "fig"
    /\ val_result

\* the boundaries of name n among the first m that passed the content check
ValidatedBoundaries(n, m) ==
    {k \in 1..m :
        /\ section_positions[k].name = n
        /\ _validate_section_content(n, SectionContent(full_text, section_positions, k))}

\* the last of them
LastValidated(n, m) ==
    CHOOSE k \in ValidatedBoundaries(n, m) : \A h \in ValidatedBoundaries(n, m) : h <= k

\* C14: the boundaries are evaluated in ascending pattern_start order, and
\* once sec_i of them are evaluated (all of them when the call returns) the
\* result maps each name to the content of the last evaluated boundary of
\* that name whose span passed validation: a later validated span replaces
\* an earlier one, a later failing span removes nothing, and a name is
\* absent exactly when none of its boundaries passed.
LastValidatedBoundaryWins ==
    pc \in {"loop", "done"} =>
        /\ \A k \in 1..(Len(section_positions) - 1) :
               section_positions[k].pattern_start <= section_positions[k + 1].pattern_start
        /\ pc = "done" => sec_i = Len(section_positions)
        /\ DOMAIN sections =
               {n \in BoundaryNames : ValidatedBoundaries(n, sec_i) # {}}
        /\ \A n \in DOMAIN sections :
               sections[n] =
                   SectionContent(full_text, section_positions, LastValidated(n, sec_i))

\* the call returned after two boundaries of one name passed validation
\* with different contents, and the result holds the content of the second
LaterValidatedOverwrote ==
    /\ pc = "done"
    /\ \E n \in DOMAIN sections : \E a, b \in ValidatedBoundaries(n, sec_i) :
           /\ a < b
           /\ SectionContent(full_text, section_positions, a)
                  # SectionContent(full_text, section_positions, b)
           /\ sections[n] = SectionContent(full_text, section_positions, b)

\* the call returned after a boundary failed validation that follows a
\* validated boundary of the same name, and the name is still in the result
LaterFailureKeptEarlier ==
    /\ pc = "done"
    /\ \E n \in DOMAIN sections : \E b \in 1..sec_i :
           /\ section_positions[b].name = n
           /\ b > LastValidated(n, sec_i)

----------------------------------------------------------------------------
(* SectionProcessor: layout reconstruction.                                *)
(* A block of page.get_text("dict")["blocks"] is a record: bbox holds      *)
(* bbox[0] and bbox[1] (x0, y0; the code reads no other coordinate),       *)
(* has_lines tells whether the key 'lines' is present, and lines is the    *)
(* text of every span of every line, in order.                             *)

column_width == 300

\* abs()
Abs(n) == IF n < 0 THEN 0 - n ELSE n

\* a < b on two-element tuples, as Python compares the sort keys
TupleLess(a, b) == a[1] < b[1] \/ (a[1] = b[1] /\ a[2] < b[2])

\* lambda b: (b['bbox'][0], b['bbox'][1])
KeyXY(b) == <<b.bbox[1], b.bbox[2]>>

\* the key without the page: lambda b: (b['bbox'][1], 0)
KeyYOnly(b) == <<b.bbox[2], 0>>

\* lambda b: (b['page'], b['bbox'][1])
KeyPageY(b) == <<b.page, b.bbox[2]>>

\* insert the pair kx of a key and an item into a list of such pairs sorted
\* by key, after the pairs of equal key
RECURSIVE InsertByKey(_, _)
InsertByKey(kxs, kx) ==
    IF kxs = <<>> THEN <<kx>>
    ELSE IF TupleLess(kx[1], Head(kxs)[1]) THEN <<kx>> \o kxs
    ELSE <<Head(kxs)>> \o InsertByKey(Tail(kxs), kx)

\* the pairs sorted by key, pairs of equal key in their given order
RECURSIVE SortKeyed(_)
SortKeyed(kxs) ==
    IF kxs = <<>> THEN <<>>
    ELSE InsertByKey(SortKeyed(SubSeq(kxs, 1, Len(kxs) - 1)), kxs[Len(kxs)])

\* the items of a sorted list of pairs
Items(kxs) == [k \in DOMAIN kxs |-> kxs[k][2]]

\* blocks.sort(key=lambda b: (b['bbox'][0], b['bbox'][1])): stable
SortByXY(blocks) ==
    Items(SortKeyed([k \in DOMAIN blocks |-> <<KeyXY(blocks[k]), blocks[k]>>]))

\* blocks.sort(key=lambda b: (b['page'], b['bbox'][1])): stable
SortByPageY(blocks) ==
    Items(SortKeyed([k \in DOMAIN blocks |-> <<KeyPageY(blocks[k]), blocks[k]>>]))

\* lines 99-100: ' '.join(span['text'] for line ... for span ...)
BlockText(block) == JoinSpace(block.lines)

\* the locals of _process_column_blocks before the walk (lines 79, 86, 87)
WalkStart == [processed_blocks |-> <<>>, current_column |-> <<>>, current_x |-> 0]

\* the iteration with the column test made inclusive
WalkStepInclusive(st, block, page, width) ==
    IF ~block.has_lines THEN st
    ELSE LET st1 == IF Abs(block.bbox[1] - st.current_x) >= width
                    THEN [processed_blocks |-> st.processed_blocks \o st.current_column,
                          current_column |-> <<>>,
                          current_x |-> block.bbox[1]]
                    ELSE st
         IN IF Strip(BlockText(block)) # <<>>
            THEN [st1 EXCEPT !.current_column =
                      Append(@, [text |-> BlockText(block), bbox |-> block.bbox,
                                 page |-> page])]
            ELSE st1

\* one iteration of the walk (lines 89-107) on the locals st
WalkStep(st, block, page, width) ==
    IF ~block.has_lines THEN st
    ELSE LET st1 == IF Abs(block.bbox[1] - st.current_x) > width
                    THEN [processed_blocks |-> st.processed_blocks \o st.current_column,
                          current_column |-> <<>>,
                          current_x |-> block.bbox[1]]
                    ELSE st
         IN IF Strip(BlockText(block)) # <<>>
            THEN [st1 EXCEPT !.current_column =
                      Append(@, [text |-> BlockText(block), bbox |-> block.bbox,
                                 page |-> page])]
            ELSE st1

\* the locals after the walk over the sorted blocks
RECURSIVE Walk(_, _, _, _)
Walk(st, blocks, page, width) ==
    IF blocks = <<>> THEN st
    ELSE Walk(WalkStep(st, Head(blocks), page, width), Tail(blocks), page, width)

\* the return without the final column
FinalFlushDropped(st) == st.processed_blocks

\* lines 110-113: the final column is added, processed_blocks is returned
FinalFlush(st) == st.processed_blocks \o st.current_column

\* value returned by _process_column_blocks with threshold width
ProcessColumnBlocks(blocks, page, width) ==
    FinalFlush(Walk(WalkStart, SortByXY(blocks), page, width))

_process_column_blocks(blocks, page) == ProcessColumnBlocks(blocks, page, column_width)

\* "\n".join(block['text'] for block in blocks) on the sorted list
JoinBlockTexts(blocks) == JoinLines([k \in DOMAIN blocks |-> blocks[k].text])

\* value returned by _reconstruct_document_text
_reconstruct_document_text(blocks) == JoinBlockTexts(SortByPageY(blocks))

----------------------------------------------------------------------------
(* SectionProcessor.extract_sections, up to the reconstructed text (lines  *)
(* 43-53).  pages[p] is the list `blocks` of page p - 1, the list the      *)
(* caller hands to _process_column_blocks; text_blocks is the list it      *)
(* hands to _reconstruct_document_text.                                    *)

\* lines 45-47 and 79-87: the next page is taken and _process_column_blocks
\* is entered; it sorts the caller's list in place
EnterProcessColumnBlocks ==
    /\ pc = "page"
    /\ page_num < Len(pages)
    /\ pages' = [pages EXCEPT ![page_num + 1] = SortByXY(@)]
    /\ processed_blocks' = WalkStart.processed_blocks
    /\ current_column' = WalkStart.current_column
    /\ current_x' = WalkStart.current_x
    /\ blk_i' = 0
    /\ pc' = "walk"
    /\ UNCHANGED <<page_num, text_blocks, linear_text, nonLayoutVars>>

\* one iteration of the loop of line 89
WalkBlock ==
    /\ pc = "walk"
    /\ blk_i < Len(pages[page_num + 1])
    /\ LET st == WalkStep([processed_blocks |-> processed_blocks,
                           current_column |-> current_column,
                           current_x |-> current_x],
                          pages[page_num + 1][blk_i + 1], page_num, column_width)
       IN /\ processed_blocks' = st.processed_blocks
          /\ current_column' = st.current_column
          /\ current_x' = st.current_x
    /\ blk_i' = blk_i + 1
    /\ UNCHANGED <<pc, pages, page_num, text_blocks, linear_text, nonLayoutVars>>

\* lines 110-113 and line 50: the final column is added, the list is
\* returned and the caller extends text_blocks with it
ReturnProcessedBlocks ==
    /\ pc = "walk"
    /\ blk_i = Len(pages[page_num + 1])
    /\ processed_blocks' = FinalFlush([processed_blocks |-> processed_blocks,
                                       current_column |-> current_column,
                                       current_x |-> current_x])
    /\ text_blocks' = text_blocks \o processed_blocks'
    /\ page_num' = page_num + 1
    /\ pc' = "page"
    /\ UNCHANGED <<pages, blk_i, current_column, current_x, linear_text, nonLayoutVars>>

\* line 53 and lines 73-74: after the last page _reconstruct_document_text
\* sorts the caller's list in place and joins the texts
ReconstructDocumentText ==
    /\ pc = "page"
    /\ page_num = Len(pages)
    /\ text_blocks' = SortByPageY(text_blocks)
    /\ linear_text' = JoinBlockTexts(text_blocks')
    /\ pc' = "done"
    /\ UNCHANGED <<pages, page_num, blk_i, processed_blocks, current_column,
                   current_x, nonLayoutVars>>

----------------------------------------------------------------------------
(* Specification SpecLayout: the reconstruction of a document of a few     *)
(* pages                                                                   *)

\* a block with the key 'lines'
TextBlock(x0, y0, spans) == [bbox |-> <<x0, y0>>, has_lines |-> TRUE, lines |-> spans]

\* a block without it (an image)
ImageBlock(x0, y0) == [bbox |-> <<x0, y0>>, has_lines |-> FALSE, lines |-> <<>>]

LayoutBlocks ==
    {TextBlock(x0, y0, << <<"a">> >>) : x0 \in {0, 300, 301}, y0 \in {50, 100}}
    \cup {TextBlock(0, 50, << <<"b">> >>),
          TextBlock(0, 100, << <<"a">>, <<"b">> >>),
          TextBlock(301, 50, << <<" ">> >>),
          TextBlock(602, 50, << <<"b">> >>),
          ImageBlock(0, 50)}

\* the lists blocks[cuts[p - 1] : cuts[p]] for the n pages of a document
PagesOf(blocks, n, cuts) ==
    [p \in 1..n |->
        SubSeq(blocks,
               (IF p = 1 THEN 0 ELSE cuts[p - 1]) + 1,
               IF p = n THEN Len(blocks) ELSE cuts[p])]

InitLayout ==
    /\ pc = "page"
    /\ \E blocks \in StringsUpTo(LayoutBlocks, MaxBlocks) : \E n \in 0..MaxPages :
         \E cuts \in [1..(n - 1) -> 0..Len(blocks)] :
           /\ n = 0 => blocks = <<>>
           /\ \A p \in 1..(n - 2) : cuts[p] <= cuts[p + 1]
           /\ pages = PagesOf(blocks, n, cuts)
    /\ page_num = 0
    /\ blk_i = 0
    /\ processed_blocks = <<>>
    /\ current_column = <<>>
    /\ current_x = 0
    /\ text_blocks = <<>>
    /\ linear_text = <<>>
    /\ IdleExceptLayout

NextLayout ==
    \/ EnterProcessColumnBlocks
    \/ WalkBlock
    \/ ReturnProcessedBlocks
    \/ ReconstructDocumentText

SpecLayout == InitLayout /\ [][NextLayout]_vars

\* the indices of the blocks of page p - 1 that have lines and non-blank
\* text
Retained(p) ==
    {k \in DOMAIN pages[p] :
        pages[p][k].has_lines /\ Strip(BlockText(pages[p][k])) # <<>>}

\* the number of indices of a list whose item is x
Count(xs, x) == Cardinality({k \in DOMAIN xs : xs[k] = x})

\* C12: in the linear text the text of block A stands before the text of
\* block B whenever (page_A, y0_A) is lexicographically smaller than
\* (page_B, y0_B), whatever the x positions and the input order: the list
\* the text is joined from holds every retained block of every page once,
\* no block with the smaller key after one with the greater key.
LinearTextInPageYOrder ==
    pc = "done" =>
        /\ \A a, b \in DOMAIN text_blocks :
               TupleLess(<<text_blocks[a].page, text_blocks[a].bbox[2]>>,
                         <<text_blocks[b].page, text_blocks[b].bbox[2]>>) => a < b
        /\ \A p \in DOMAIN pages : \A k \in Retained(p) :
               LET r == [text |-> BlockText(pages[p][k]), bbox |-> pages[p][k].bbox,
                         page |-> p - 1]
               IN Count(text_blocks, r)
                      = Cardinality({h \in Retained(p) :
                            /\ pages[p][h].bbox = pages[p][k].bbox
                            /\ BlockText(pages[p][h]) = BlockText(pages[p][k])})
        /\ \A a \in DOMAIN text_blocks :
               \E p \in DOMAIN pages : \E k \in Retained(p) :
                   text_blocks[a] = [text |-> BlockText(pages[p][k]),
                                     bbox |-> pages[p][k].bbox, page |-> p - 1]
        /\ linear_text = JoinLines([k \in DOMAIN text_blocks |-> text_blocks[k].text])

\* on one page the block at y0 = 100 was walked before the block at
\* y0 = 50 (it lies further left), and the linear text has the text of the
\* block at y0 = 50 first
LowerBlockMovedAfterUpper ==
    /\ pc = "done"
    /\ Len(pages) = 1
    /\ Len(processed_blocks) = 2
    /\ processed_blocks[1].bbox[2] = 100
    /\ processed_blocks[2].bbox[2] = 50
    /\ text_blocks = <<processed_blocks[2], processed_blocks[1]>>
    /\ linear_text = processed_blocks[2].text \o <<"\n">> \o processed_blocks[1].text

\* the block the next iteration of the walk takes
NextBlock == pages[page_num + 1][blk_i + 1]

\* the walk is about to take a block that has lines
WalksTextBlock ==
    /\ pc = "walk"
    /\ blk_i < Len(pages[page_num + 1])
    /\ NextBlock.has_lines

\* C13 as stated: a block whose x0 differs from the current column origin
\* by exactly the column-width threshold (300) starts a new column: the
\* accumulated column is flushed and the origin becomes that block's x0.
ExactThresholdStartsNewColumn ==
    [][(WalksTextBlock /\ Abs(NextBlock.bbox[1] - current_x) = 300) =>
           /\ processed_blocks' = processed_blocks \o current_column
           /\ current_x' = NextBlock.bbox[1]]_vars

\* current_column after a step that flushed nothing: the old list, with the
\* block's record appended or not
ColumnKept ==
    /\ Len(current_column') >= Len(current_column)
    /\ SubSeq(current_column', 1, Len(current_column)) = current_column

\* C13 as amended: a block whose x0 differs from the current column origin
\* by exactly 300 stays in the current column (nothing is flushed, the
\* origin is unchanged); only a difference strictly greater than 300
\* flushes the accumulated column and moves the origin to the block's x0.
ExactThresholdStaysInColumn ==
    [][WalksTextBlock =>
           /\ Abs(NextBlock.bbox[1] - current_x) = 300 =>
                  /\ processed_blocks' = processed_blocks
                  /\ current_x' = current_x
                  /\ ColumnKept
           /\ Abs(NextBlock.bbox[1] - current_x) > 300 =>
                  /\ processed_blocks' = processed_blocks \o current_column
                  /\ current_x' = NextBlock.bbox[1]
                  /\ Len(current_column') <= 1]_vars

\* the walk has just taken a text block exactly 300 from the origin, and
\* the block joined the column of an earlier block: nothing was flushed
\* and the origin did not move
BlockAtThresholdJoinedColumn ==
    /\ pc = "walk"
    /\ blk_i >= 2
    /\ pages[page_num + 1][blk_i].has_lines
    /\ pages[page_num + 1][blk_i].bbox[1] - current_x = 300
    /\ processed_blocks = <<>>
    /\ Len(current_column) >= 2
    /\ current_column[Len(current_column)].bbox = pages[page_num + 1][blk_i].bbox
    /\ current_column[1].bbox[1] = current_x

\* thresholds to compare the grouping under
ColumnWidths == {0, 1, 299, 300, 1000}

\* the records of the blocks of page p - 1 that have lines and non-blank
\* text, in the order of the list
RetainedRecords(p) ==
    LET kept == SelectSeq(pages[p],
                          LAMBDA b : b.has_lines /\ Strip(JoinSpace(b.lines)) # <<>>)
    IN [k \in DOMAIN kept |->
           [text |-> JoinSpace(kept[k].lines), bbox |-> kept[k].bbox, page |-> p - 1]]

\* text_blocks of the whole document under threshold w
TextBlocksUnder(w) ==
    Concat([p \in DOMAIN pages |-> ProcessColumnBlocks(pages[p], p - 1, w)])

\* C16: the column grouping neither loses, duplicates nor reorders blocks
\* and cannot be observed in the output.  When _process_column_blocks has
\* returned for a page, the list it sorted is in (x0, y0) order and the
\* value returned holds, in that order, exactly one record for each block
\* that has lines and non-blank text, however many columns were flushed,
\* and every threshold gives the same value; so the linear text of the
\* document is the same under every threshold.
ColumnGroupingUnobservable ==
    /\ (pc = "page" /\ page_num >= 1) =>
           /\ \A a, b \in DOMAIN pages[page_num] :
                  a < b => ~TupleLess(<<pages[page_num][b].bbox[1], pages[page_num][b].bbox[2]>>,
                                      <<pages[page_num][a].bbox[1], pages[page_num][a].bbox[2]>>)
           /\ processed_blocks = RetainedRecords(page_num)
           /\ \A w \in ColumnWidths :
                  ProcessColumnBlocks(pages[page_num], page_num - 1, w) = processed_blocks
    /\ pc = "done" =>
           \A w \in ColumnWidths :
               _reconstruct_document_text(TextBlocksUnder(w)) = linear_text

\* _process_column_blocks returned for a page of three blocks after two
\* columns were flushed during the walk, with all three blocks retained
ReturnedAfterTwoFlushes ==
    /\ pc = "page"
    /\ page_num >= 1
    /\ Len(pages[page_num]) = 3
    /\ Len(processed_blocks) = 3
    /\ processed_blocks[1].bbox[1] = 0
    /\ processed_blocks[2].bbox[1] = 301
    /\ processed_blocks[3].bbox[1] = 602
    /\ current_x = 602
    /\ Len(current_column) = 1

----------------------------------------------------------------------------
(* Specification SpecCore: the operations that take a list from their      *)
(* caller, each on its own input                                           *)

InitCore == InitReferences \/ InitLayout

NextCore == NextReferences \/ NextLayout

SpecCore == InitCore /\ [][NextCore]_vars

\* C15: the core operations leave their inputs as they were:
\* _validate_references changes no record it is passed (the year of each
\* is the same after the call as before), and _process_column_blocks and
\* _reconstruct_document_text leave the order and the content of the
\* caller's block list unchanged.
CoreOperationsLeaveInputsUnchanged ==
    [][/\ references' = references
       /\ pages' = pages
       /\ (pc = "page" /\ page_num = Len(pages)) => text_blocks' = text_blocks]_vars

====
